---- MODULE Spec2Model ----
(***************************************************************************)
(* Model of the fixture generators generate_test_solver.py and             *)
(* generate_test_determinant.py.                                           *)
(*                                                                         *)
(* Numbers.  A double is modelled as an exact decimal <<"dec", m, e>>      *)
(* (value m * 10^e, m without trailing zeros) as long as its mantissa fits *)
(* a machine integer, and as a symbolic term <<tag, ...>> otherwise        *)
(* (results of the reference library: solve, det, cond, eigvals, qr; and   *)
(* sums whose mantissa is too long, such as 1.0 + 1e-10).  Two terms are   *)
(* equal exactly when they were computed the same way from the same values.*)
(*                                                                         *)
(* Output.  Standard output is the sequence out of tokens, one token per   *)
(* printed line (or per printed element where a line is built in pieces).  *)
(***************************************************************************)
EXTENDS Integers, Sequences, FiniteSets, TLC

VARIABLES script, pc, ran, rng, cur, out, fixtures, calls, rendered

vars == <<script, pc, ran, rng, cur, out, fixtures, calls, rendered>>

(***************************************************************************)
(* Bounds of the model.                                                    *)
(***************************************************************************)
\* decimal digits of one pseudo-random draw (the generator has 10^RngDigits states)
RngDigits == 3
\* the generator's state at process start is any of 0..MaxEntropy
MaxEntropy == 1
\* magnitude of the base-matrix entries tried for the diagonal-dominance loop
DDMaxVal == 1
\* magnitude scale of the entries tried for the emitters
EmitMaxVal == 1

(***************************************************************************)
(* Decimal arithmetic                                                      *)
(***************************************************************************)
RECURSIVE Pow10(_)
Pow10(k) == IF k <= 0 THEN 1 ELSE 10 * Pow10(k - 1)

MaxMant == Pow10(9)

Abs(i) == IF i < 0 THEN -i ELSE i

Min(a, b) == IF a <= b THEN a ELSE b

RECURSIVE NumDigits(_)
NumDigits(i) == IF Abs(i) < 10 THEN 1 ELSE 1 + NumDigits(Abs(i) \div 10)

RECURSIVE Dec(_, _)
Dec(m, e) ==
    IF m = 0 THEN <<"dec", 0, 0>>
    ELSE IF m % 10 = 0 THEN Dec(m \div 10, e + 1)
    ELSE <<"dec", m, e>>

IsDec(x) == x[1] = "dec"

\* the mantissa of decimal x at exponent e <= x[3], when it fits
Fits(x, e) == x[3] - e <= 9 /\ Abs(x[2]) <= MaxMant \div Pow10(x[3] - e)

At(x, e) == x[2] * Pow10(x[3] - e)

\* An operand is bound to its value before it is used (v \in {x}), so that it
\* is computed once however often the operation reads it.
AddDec(x, y) ==
    IF IsDec(x) /\ IsDec(y)
    THEN LET e == Min(x[3], y[3])
         IN  IF x[2] = 0 THEN y
             ELSE IF y[2] = 0 THEN x
             ELSE IF Fits(x, e) /\ Fits(y, e)
                  THEN Dec(At(x, e) + At(y, e), e)
                  ELSE <<"add", x, y>>
    ELSE <<"add", x, y>>

NumAdd(x, y) == CHOOSE r \in {AddDec(a, b) : a \in {x}, b \in {y}} : TRUE

NegDec(x) == IF IsDec(x) THEN Dec(-x[2], x[3]) ELSE <<"neg", x>>

NumNeg(x) == CHOOSE r \in {NegDec(a) : a \in {x}} : TRUE

NumSub(x, y) == NumAdd(x, NumNeg(y))

MulDec(x, y) ==
    IF IsDec(x) /\ IsDec(y)
    THEN IF x[2] = 0 \/ y[2] = 0 THEN Dec(0, 0)
         ELSE IF Abs(y[2]) <= MaxMant \div Abs(x[2])
              THEN Dec(x[2] * y[2], x[3] + y[3])
              ELSE <<"mul", x, y>>
    ELSE <<"mul", x, y>>

NumMul(x, y) == CHOOSE r \in {MulDec(a, b) : a \in {x}, b \in {y}} : TRUE

AbsDec(x) == IF IsDec(x) THEN Dec(Abs(x[2]), x[3]) ELSE <<"abs", x>>

NumAbs(x) == CHOOSE r \in {AbsDec(a) : a \in {x}} : TRUE

\* x < y, for decimals whose mantissas fit at the common exponent
LessDec(x, y) ==
    LET e == Min(x[3], y[3]) IN At(x, e) < At(y, e)

NumLess(x, y) == \E a \in {x} : \E b \in {y} : LessDec(a, b)

RECURSIVE SumDec(_, _, _)
SumDec(v, k, acc) == IF k > Len(v) THEN acc ELSE SumDec(v, k + 1, NumAdd(acc, v[k]))

\* np.sum(v)
NumSum(v) == CHOOSE r \in {SumDec(w, 1, Dec(0, 0)) : w \in {v}} : TRUE

(***************************************************************************)
(* Arrays: a vector is a tuple of numbers, a matrix a tuple of rows.       *)
(***************************************************************************)
IntVec(v) == [i \in DOMAIN v |-> Dec(v[i], 0)]

IntMat(M) == [i \in DOMAIN M |-> IntVec(M[i])]

Shape0(A) == Len(A)

Transpose(A) == [j \in 1..Len(A[1]) |-> [i \in 1..Len(A) |-> A[i][j]]]

MatMul(A, B) ==
    [i \in 1..Len(A) |-> [j \in 1..Len(B[1]) |->
        NumSum([k \in 1..Len(B) |-> NumMul(A[i][k], B[k][j])])]]

MatVec(A, x) ==
    [i \in 1..Len(A) |-> NumSum([k \in 1..Len(x) |-> NumMul(A[i][k], x[k])])]

MatAdd(A, B) == [i \in 1..Len(A) |-> [j \in 1..Len(A[i]) |-> NumAdd(A[i][j], B[i][j])]]

MatScale(c, A) == [i \in 1..Len(A) |-> [j \in 1..Len(A[i]) |-> NumMul(c, A[i][j])]]

diag(v) == [i \in 1..Len(v) |-> [j \in 1..Len(v) |-> IF i = j THEN v[i] ELSE Dec(0, 0)]]

eye(n) == diag([i \in 1..n |-> Dec(1, 0)])

ones(n) == [i \in 1..n |-> Dec(1, 0)]

arange(lo, hi) == [i \in 1..(hi - lo) |-> Dec(lo + i - 1, 0)]

(***************************************************************************)
(* The process-wide pseudo-random generator (np.random).  Its state is one *)
(* integer; a draw advances the state and returns it as a fraction in      *)
(* [0, 1).  Seeding sets the state from the seed alone.                    *)
(***************************************************************************)
RngMod == Pow10(RngDigits)

SeedState(s) == s % RngMod

\* a seed call that leaves the generator as it is
np_random_seed_m(state, s) == state

\* np.random.seed(s), called in state `state`
np_random_seed(state, s) == SeedState(s)

RngStep(s) == (21 * s + 7) % RngMod

RECURSIVE RngAfter(_, _)
RngAfter(s, k) == IF k = 0 THEN s ELSE RngAfter(RngStep(s), k - 1)

\* the k-th draw (k >= 1) from state s
random_sample(s, k) == Dec(RngAfter(s, k), -RngDigits)

\* np.random.rand(n, n): n*n draws, filled row by row
rand(s, n) == [i \in 1..n |-> [j \in 1..n |-> random_sample(s, (i - 1) * n + j)]]

\* np.random.uniform(low, high, (n, n)) = low + (high - low) * draw
uniform(s, low, high, n) ==
    [i \in 1..n |-> [j \in 1..n |->
        NumAdd(low, NumMul(NumSub(high, low), random_sample(s, (i - 1) * n + j)))]]

\* np.random.uniform(low, high, n)
uniform_vec(s, low, high, n) ==
    [i \in 1..n |-> NumAdd(low, NumMul(NumSub(high, low), random_sample(s, i)))]

(***************************************************************************)
(* The reference library (numpy.linalg): its results are terms over the    *)
(* arguments.                                                              *)
(***************************************************************************)
linalg_solve(A, b) == [i \in 1..Len(b) |-> <<"solve", A, b, i>>]

linalg_det(A) == <<"det", A>>

linalg_cond(A) == <<"cond", A>>

eig_min(A) == <<"min_abs_eigvals", A>>

eig_max(A) == <<"max_abs_eigvals", A>>

\* Q, _ = np.linalg.qr(R);  A = Q @ np.diag(eigenvalues) @ Q.T, for the n x n
\* matrix R; R is given as a term, since only A's dependence on it is modelled
ill_conditioned(R, eigenvalues, n) ==
    [i \in 1..n |-> [j \in 1..n |-> <<"Q_diag_Qt", R, eigenvalues, i, j>>]]

(***************************************************************************)
(* Number formatting.  A literal records the format, the precision and the *)
(* value that the printed digits denote.                                   *)
(***************************************************************************)
\* m / d rounded to the nearest integer, ties to even
RoundDiv(m, d) ==
    LET q == Abs(m) \div d
        r == Abs(m) % d
        up == IF 2 * r > d \/ (2 * r = d /\ q % 2 = 1) THEN q + 1 ELSE q
    IN  IF m < 0 THEN -up ELSE up

\* x rounded to s significant digits
SigDec(x, s) ==
    IF IsDec(x)
    THEN LET nd == NumDigits(x[2])
         IN  IF nd <= s THEN x
             ELSE Dec(RoundDiv(x[2], Pow10(nd - s)), x[3] + nd - s)
    ELSE <<"round_sig", s, x>>

RoundSig(x, s) == CHOOSE r \in {SigDec(a, s) : a \in {x}} : TRUE

\* x rounded to p digits after the decimal point
PlacesDec(x, p) ==
    IF IsDec(x)
    THEN IF x[3] >= -p THEN x
         ELSE Dec(RoundDiv(x[2], Pow10(-p - x[3])), -p)
    ELSE <<"round_dec", p, x>>

RoundDec(x, p) == CHOOSE r \in {PlacesDec(a, p) : a \in {x}} : TRUE

\* f"{x:.{p}e}"
FormatE(x, p) == [fmt |-> "e", prec |-> p, val |-> RoundSig(x, p + 1)]

\* f"{x:.{p}f}"
FormatF(x, p) == [fmt |-> "f", prec |-> p, val |-> RoundDec(x, p)]

\* f"{x}": the shortest digits that read back as x
FormatStr(x) == [fmt |-> "r", prec |-> 0, val |-> x]

\* significant decimal digits written for a literal of a decimal value
SigDigits(l) ==
    IF l.fmt = "e" THEN l.prec + 1
    ELSE IF l.fmt = "f"
         THEN IF l.val[2] = 0 THEN l.prec + 1
              ELSE NumDigits(l.val[2]) + l.val[3] + l.prec
    ELSE NumDigits(l.val[2])

(***************************************************************************)
(* Emitters                                                                *)
(***************************************************************************)
Tok(t, v) == [t |-> t, v |-> v]

RECURSIVE Flatten(_)
Flatten(rows) == IF Len(rows) = 0 THEN <<>> ELSE Head(rows) \o Flatten(Tail(rows))

\* the elements appended column by column
MatrixElements_m(A, n) ==
    Flatten([j \in 1..n |-> [i \in 1..n |-> FormatE(A[i][j], 16)]])

\* for i in range(n): for j in range(n): elements.append(f"{A[i, j]:.16e}")
MatrixElements(A, n) ==
    Flatten([i \in 1..n |-> [j \in 1..n |-> FormatE(A[i][j], 16)]])

\* the back substitution printed before the decomposition
SolveLines_m ==
    << Tok("lu_backsubs", "m, m_perm, rhs"), Tok("lu_decomp", "m, m_perm") >>

\* the calls into the library under test
SolveLines ==
    << Tok("lu_decomp", "m, m_perm"), Tok("lu_backsubs", "m, m_perm, rhs") >>

print_solver_test_case(A, b, x_expected, name, epsilon) ==
    LET n == Shape0(A)
    IN  << Tok("subcase", name),
           Tok("open", "{"),
           Tok("comment", "Matrix A"),
           Tok("m_s", MatrixElements(A, n)),
           Tok("comment", "Right-hand side b"),
           Tok("rhs_s", [i \in 1..n |-> FormatE(b[i], 16)]),
           Tok("comment", "Expected solution x"),
           Tok("x_expected", [i \in 1..n |-> FormatE(x_expected[i], 16)]),
           Tok("m_perm_s", n),
           Tok("blank", ""),
           Tok("comment", "Setup mdspan views"),
           Tok("mdspan_m", <<n, n>>),
           Tok("mdspan_rhs", n),
           Tok("mdspan_m_perm", n),
           Tok("blank", ""),
           Tok("comment", "Solve system") >>
        \o SolveLines
        \o << Tok("blank", ""),
           Tok("comment", "Verify solution"),
           Tok("for", n),
           Tok("check", epsilon),
           Tok("end_for", "}"),
           Tok("close", "}") >>

print_matrix_info(A, name) ==
    << Tok("info_name", name),
       Tok("info_size", <<Shape0(A), Len(A[1])>>),
       Tok("info_det", FormatE(linalg_det(A), 6)),
       Tok("info_cond", FormatE(linalg_cond(A), 6)),
       Tok("info_eig", <<FormatE(eig_min(A), 6), FormatE(eig_max(A), 6)>>),
       Tok("info_ratio", FormatE(<<"div", eig_max(A), eig_min(A)>>, 6)) >>

print_matrix(A, name, det_value) ==
    LET n == Shape0(A)
    IN  << Tok("comment_name", name),
           Tok("comment_det", FormatStr(det_value)),
           Tok("open_nested", "std::vector<std::vector<double>> A") >>
        \o [i \in 1..n |->
               Tok("row", [lits |-> [j \in 1..Len(A[i]) |-> FormatF(A[i][j], 6)],
                           comma |-> i - 1 < n - 1])]
        \o << Tok("close", "};"),
              Tok("check_det", [call |-> "det(A)",
                                approx |-> FormatF(det_value, 10),
                                epsilon |-> "1e-6"]) >>

\* element (j, i) printed at position (i, j)
mdspan_element_m(A, n, i, j) ==
    (IF j = 0 THEN <<Tok("indent", "    ")>> ELSE <<>>)
    \o << Tok("elem", [lit |-> FormatF(A[j + 1][i + 1], 6),
                       comma |-> ~(i = n - 1 /\ j = n - 1)]) >>
    \o (IF j = n - 1 THEN <<Tok("newline", "")>> ELSE <<Tok("space", " ")>>)

\* the pieces printed for element (i, j), 0-based as in the source
mdspan_element(A, n, i, j) ==
    (IF j = 0 THEN <<Tok("indent", "    ")>> ELSE <<>>)
    \o << Tok("elem", [lit |-> FormatF(A[i + 1][j + 1], 6),
                       comma |-> ~(i = n - 1 /\ j = n - 1)]) >>
    \o (IF j = n - 1 THEN <<Tok("newline", "")>> ELSE <<Tok("space", " ")>>)

print_mdspan_matrix(A, name, det_value) ==
    LET n == Shape0(A)
    IN  << Tok("comment_name", name),
           Tok("comment_det", FormatStr(det_value)),
           Tok("open_flat", "double data[]") >>
        \o Flatten([i \in 1..n |->
               Flatten([j \in 1..n |-> mdspan_element(A, n, i - 1, j - 1)])])
        \o << Tok("close", "};"),
              Tok("mdspan_decl", <<n, n>>),
              Tok("check_det", [call |-> "det<double>(A)",
                                approx |-> FormatF(det_value, 10),
                                epsilon |-> "1e-6"]) >>

Banner(title) == <<Tok("rule", 80), Tok("title", title), Tok("rule", 80)>>

(***************************************************************************)
(* Matrix builders.  Each returns the matrix A, the right-hand side b, the *)
(* known solution x_true (<<>> when there is none) and the generator state *)
(* it leaves behind.                                                       *)
(***************************************************************************)
\* the row summed without taking absolute values
DDRow_m(A, A_temp, i, margin) ==
    [A EXCEPT ![i][i] = NumAdd(NumSum(A_temp[i]), margin)]

\* A[i, i] = np.sum(np.abs(A_temp[i, :])) + margin
DDRow(A, A_temp, i, margin) ==
    [A EXCEPT ![i][i] =
        NumAdd(NumSum([j \in 1..Len(A_temp[i]) |-> NumAbs(A_temp[i][j])]), margin)]

RECURSIVE DDLoop(_, _, _, _, _)
DDLoop(A, A_temp, i, n, margin) ==
    IF i > n THEN A ELSE DDLoop(DDRow(A, A_temp, i, margin), A_temp, i + 1, n, margin)

\* the copy returned without the loop
diagonally_dominant_m(A_temp, n, margin) == A_temp

\* A = A_temp.copy(); for i in range(n): A[i, i] = ...
diagonally_dominant(A_temp, n, margin) == DDLoop(A_temp, A_temp, 1, n, margin)

Built(A, b, x_true, state) == [A |-> A, b |-> b, x_true |-> x_true, rng |-> state]

\* Op applied to the value of v: a local variable assigned once and read by the
\* statements that follow
Let(v, Op(_)) == CHOOSE r \in {Op(a) : a \in {v}} : TRUE

BuildLiteral(f, state) == Built(f.A, f.b, <<>>, state)

\* generate_basic_tests, 5x5: uniform(-5, 5) base, margin 1.0, b drawn after A
BuildBasicRandom(f, state) ==
    Let(np_random_seed(state, f.seed), LAMBDA s0 :
    Let(uniform(s0, Dec(-5, 0), Dec(5, 0), f.n), LAMBDA A_temp :
    Let(RngAfter(s0, f.n * f.n), LAMBDA s1 :
        Built(diagonally_dominant(A_temp, f.n, f.param),
              uniform_vec(s1, Dec(-10, 0), Dec(10, 0), f.n),
              <<>>,
              RngAfter(s1, f.n)))))

\* A = B.T @ B + param * np.eye(n)
BuildSPD(f, state) ==
    Let(np_random_seed(state, f.seed), LAMBDA s0 :
    Let(rand(s0, f.n), LAMBDA B :
    Let(MatMul(Transpose(B), B), LAMBDA BtB :
        Built(MatAdd(BtB, MatScale(f.param, eye(f.n))),
              f.b, <<>>, RngAfter(s0, f.n * f.n)))))

\* A_temp = rand(n, n) * 10 - 5
Scaled(R) ==
    [i \in 1..Len(R) |-> [j \in 1..Len(R[i]) |->
        NumSub(NumMul(R[i][j], Dec(10, 0)), Dec(5, 0))]]

\* A_temp = rand(n, n) * 10 - 5; A diagonally dominant; b = A @ x_true
BuildKnown(f, state) ==
    Let(np_random_seed(state, f.seed), LAMBDA s0 :
    Let(rand(s0, f.n), LAMBDA R :
    Let(Scaled(R), LAMBDA A_temp :
    Let(diagonally_dominant(A_temp, f.n, f.param), LAMBDA A :
        Built(A, MatVec(A, f.x_true), f.x_true, RngAfter(s0, f.n * f.n))))))

\* the stiff matrix drawn without the seed call
BuildStiff_m(f, state) ==
    Built(ill_conditioned(<<"rand", state, f.n, f.n>>, f.eig, f.n), f.b, <<>>,
          RngAfter(state, f.n * f.n))

\* Q from qr(rand(n, n)); A = Q @ diag(eigenvalues) @ Q.T.  The n*n draws are
\* kept as the term <<"rand", state, n, n>>: the draws made from that state
BuildStiff(f, state) ==
    Let(np_random_seed(state, f.seed), LAMBDA s0 :
        Built(ill_conditioned(<<"rand", s0, f.n, f.n>>, f.eig, f.n), f.b, <<>>,
              RngAfter(s0, f.n * f.n)))

\* generate_test_matrices: A = np.random.uniform(-1, 1, (n, n))
BuildUniform(f, state) ==
    Let(np_random_seed(state, f.seed), LAMBDA s0 :
        Built(uniform(s0, Dec(-1, 0), Dec(1, 0), f.n), <<>>, <<>>,
              RngAfter(s0, f.n * f.n)))

BuildFixture(f, state) ==
    CASE f.build = "literal" -> BuildLiteral(f, state)
      [] f.build = "basic_random" -> BuildBasicRandom(f, state)
      [] f.build = "spd" -> BuildSPD(f, state)
      [] f.build = "known" -> BuildKnown(f, state)
      [] f.build = "stiff" -> BuildStiff(f, state)
      [] f.build = "uniform" -> BuildUniform(f, state)

Randomized(f) == f.build # "literal"

(***************************************************************************)
(* The generator routines, as statement lists: a banner, or a fixture with *)
(* the way its matrix is built and the arguments of its print call.        *)
(***************************************************************************)
DefaultEpsilon == "1e-12"

BannerStmt(title) == [op |-> "banner", title |-> title]

\* print("\n" + "="*80) on its own
RuleStmt == [op |-> "rule"]

Fixture(name, build, n, sd, A, b, param, eig, x_true, epsilon) ==
    [op |-> "fixture", name |-> name, build |-> build, n |-> n, seed |-> sd,
     A |-> A, b |-> b, param |-> param, eig |-> eig, x_true |-> x_true,
     epsilon |-> epsilon, info |-> name]

\* a fixture whose print_matrix_info call is given another name than its print call
WithInfo(f, info) == [f EXCEPT !.info = info]

Literal(name, A, b, epsilon) ==
    Fixture(name, "literal", Len(A), 0, A, b, Dec(0, 0), <<>>, <<>>, epsilon)

generate_basic_tests ==
    << BannerStmt("Basic Test Cases"),
       Literal("Simple 2x2 system",
               IntMat(<< <<2, 1>>, <<1, 3>> >>), IntVec(<<5, 6>>), "default"),
       Literal("Upper triangular 3x3 system",
               IntMat(<< <<1, 2, 3>>, <<0, 4, 1>>, <<0, 0, 1>> >>),
               IntVec(<<1, 1, 1>>), "default"),
       Literal("General 4x4 system",
               IntMat(<< <<2, 1, 1, 0>>, <<4, 3, 3, 1>>, <<8, 7, 9, 5>>, <<6, 7, 9, 8>> >>),
               IntVec(<<1, 2, 3, 4>>), "default"),
       Fixture("Random 5x5 diagonally dominant system", "basic_random", 5, 42,
               <<>>, <<>>, Dec(1, 0), <<>>, <<>>, "1e-10") >>

generate_identity_tests ==
    << BannerStmt("Identity and Diagonal Matrix Tests"),
       Literal("Identity 3x3", eye(3), IntVec(<<1, 2, 3>>), "default"),
       Literal("Diagonal 4x4", diag(IntVec(<<2, 3, 4, 5>>)),
               IntVec(<<2, 6, 12, 20>>), "default") >>

generate_symmetric_positive_definite_tests ==
    << BannerStmt("Symmetric Positive Definite Systems"),
       Fixture("Symmetric positive definite 3x3", "spd", 3, 100,
               <<>>, IntVec(<<1, 2, 3>>), Dec(1, 0), <<>>, <<>>, "default"),
       Fixture("Symmetric positive definite 4x4", "spd", 4, 200,
               <<>>, ones(4), Dec(1, -1), <<>>, <<>>, "default") >>

generate_stiff_system_tests ==
    << BannerStmt("Stiff System Tests (High Condition Number)"),
       WithInfo(Fixture("Stiff 3x3 system (condition ~ 1e5)", "stiff", 3, 500,
               <<>>, IntVec(<<1, 2, 3>>), Dec(0, 0),
               <<Dec(1, -5), Dec(1, 0), Dec(1, 0)>>, <<>>, "1e-8"),
                "Stiff 3x3 system (condition number ~ 1e5)"),
       WithInfo(Fixture("Stiff 4x4 system (condition ~ 1e6)", "stiff", 4, 501,
               <<>>, ones(4), Dec(0, 0),
               <<Dec(1, -6), Dec(1, -2), Dec(1, -1), Dec(1, 0)>>, <<>>, "1e-6"),
                "Stiff 4x4 system (condition number ~ 1e6)"),
       WithInfo(Fixture("Extremely stiff 5x5 system (condition ~ 1e7)", "stiff", 5, 502,
               <<>>, arange(1, 6), Dec(0, 0),
               <<Dec(1, -7), Dec(1, -3), Dec(1, -2), Dec(1, -1), Dec(1, 0)>>,
               <<>>, "1e-5"),
                "Extremely stiff 5x5 system (condition number ~ 1e7)"),
       Literal("Diagonal stiff 3x3 (eigenvalue ratio = 1e7)",
               diag(<<Dec(1, -5), Dec(1, 0), Dec(100, 0)>>),
               <<Dec(1, -5), Dec(1, 0), Dec(100, 0)>>, "1e-10") >>

generate_tricky_systems ==
    LET one == Dec(1, 0)
        one_eps == NumAdd(Dec(1, 0), Dec(1, -10))
        three_eps == NumAdd(Dec(3, 0), Dec(1, -10))
    IN  << BannerStmt("Numerically Challenging Systems"),
           Literal("Nearly singular 3x3",
                   << <<one, one, one>>, <<one, one_eps, one>>, <<one, one, one_eps>> >>,
                   <<Dec(3, 0), three_eps, three_eps>>, "1e-6"),
           Literal("Mixed scales 3x3",
                   << <<Dec(1, 6), one, one>>, <<one, Dec(1, -6), one>>, <<one, one, one>> >>,
                   << NumAdd(Dec(1, 6), Dec(2, 0)),
                      NumAdd(NumAdd(Dec(1, 0), Dec(1, -6)), Dec(1, 0)),
                      Dec(3, 0) >>, "1e-6") >>

generate_known_solution_tests ==
    << BannerStmt("Known Solution Tests (x = [1, 2, 3, ...])"),
       WithInfo(Fixture("Known solution [1, 2, 3]", "known", 3, 300,
               <<>>, <<>>, Dec(5, 0), <<>>, IntVec(<<1, 2, 3>>), "default"),
                "System with known solution [1, 2, 3]"),
       WithInfo(Fixture("Known solution [1, 2, 3, 4, 5]", "known", 5, 301,
               <<>>, <<>>, Dec(5, 0), <<>>, IntVec(<<1, 2, 3, 4, 5>>), "default"),
                "System with known solution [1, 2, 3, 4, 5]") >>

DetLiteral(name, A) == Literal(name, A, <<>>, "1e-6")

DetRandom(name, n, sd) ==
    Fixture(name, "uniform", n, sd, <<>>, <<>>, Dec(0, 0), <<>>, <<>>, "1e-6")

generate_test_matrices ==
    << BannerStmt("Test Matrices for hd_determinant_test.cpp"),
       BannerStmt("2x2 Matrices"),
       DetLiteral("Simple 2x2 matrix", IntMat(<< <<1, 2>>, <<3, 4>> >>)),
       DetLiteral("Integer 2x2 matrix", IntMat(<< <<2, 3>>, <<1, 4>> >>)),
       BannerStmt("3x3 Matrices"),
       DetLiteral("Simple 3x3 matrix",
                  IntMat(<< <<1, 2, 3>>, <<0, 1, 4>>, <<5, 6, 0>> >>)),
       DetLiteral("User example 3x3 matrix",
                  IntMat(<< <<0, 2, 6>>, <<1, 8, 4>>, <<5, 2, 7>> >>)),
       BannerStmt("4x4 Matrices"),
       DetLiteral("General 4x4 matrix",
                  IntMat(<< <<1, 2, 0, 1>>, <<3, 1, 2, 0>>, <<0, 1, 1, 2>>, <<2, 0, 1, 1>> >>)),
       DetLiteral("Diagonal 4x4 matrix", diag(IntVec(<<2, 3, 4, 5>>))),
       BannerStmt("5x5 Matrices"),
       DetRandom("Random 5x5 matrix with entries in [-1, 1]", 5, 42),
       DetRandom("Another random 5x5 matrix", 5, 123),
       BannerStmt("6x6 Matrices"),
       DetRandom("Random 6x6 matrix with entries in [-1, 1]", 6, 999),
       BannerStmt("Special Matrices"),
       DetLiteral("Upper triangular 4x4 (det = product of diagonal)",
                  IntMat(<< <<1, 2, 3, 4>>, <<0, 1, 2, 3>>, <<0, 0, 1, 2>>, <<0, 0, 0, 1>> >>)),
       DetLiteral("Rotation matrix (det = 1)",
                  << << <<"cos", "pi/4">>, NumNeg(<<"sin", "pi/4">>) >>,
                     << <<"sin", "pi/4">>, <<"cos", "pi/4">> >> >>),
       RuleStmt >>

generate_singular_matrices ==
    << BannerStmt("Singular Matrices (det = 0)"),
       DetLiteral("3x3 with row of zeros",
                  IntMat(<< <<1, 2, 3>>, <<0, 0, 0>>, <<4, 5, 6>> >>)),
       DetLiteral("4x4 with linearly dependent rows",
                  IntMat(<< <<1, 2, 3, 4>>, <<2, 4, 6, 8>>, <<1, 1, 1, 1>>, <<0, 1, 2, 3>> >>)) >>

Body(g) ==
    CASE g = "generate_basic_tests" -> generate_basic_tests
      [] g = "generate_identity_tests" -> generate_identity_tests
      [] g = "generate_symmetric_positive_definite_tests" ->
             generate_symmetric_positive_definite_tests
      [] g = "generate_known_solution_tests" -> generate_known_solution_tests
      [] g = "generate_stiff_system_tests" -> generate_stiff_system_tests
      [] g = "generate_tricky_systems" -> generate_tricky_systems
      [] g = "generate_test_matrices" -> generate_test_matrices
      [] g = "generate_singular_matrices" -> generate_singular_matrices

\* the calls of each script's __main__ block, in order
MainOrder(s) ==
    IF s = "solver"
    THEN << "generate_basic_tests", "generate_identity_tests",
            "generate_symmetric_positive_definite_tests",
            "generate_known_solution_tests", "generate_stiff_system_tests",
            "generate_tricky_systems" >>
    ELSE << "generate_test_matrices", "generate_singular_matrices" >>

(***************************************************************************)
(* The scripts as state machines.                                          *)
(*   script    which script this process runs                              *)
(*   pc        the routine being run (g), the statement in it (i), and the *)
(*             step within a fixture statement                             *)
(*   ran       the generator routines called so far, in call order         *)
(*   rng       the state of the process-wide generator                     *)
(*   cur       the locals A, b, x, det_A of the fixture being built, with  *)
(*             rng0, the generator's state when its statement started      *)
(*   out       standard output                                             *)
(*   fixtures  the arguments of every print call made so far               *)
(*   calls     the reference-library calls made so far                     *)
(*   rendered  outputs of the emitters applied on their own                *)
(***************************************************************************)
Range(f) == {f[i] : i \in DOMAIN f}

NoCur ==
    [name |-> "", A |-> <<>>, b |-> <<>>, x |-> <<>>, x_true |-> <<>>,
     det |-> <<>>, rng0 |-> 0]

AtMain(step) == pc.g = "main" /\ pc.step = step

Stmt == Body(pc.g)[pc.i]

AtStmt(op, step) ==
    /\ pc.g # "main"
    /\ pc.i <= Len(Body(pc.g))
    /\ Stmt.op = op
    /\ pc.step = step

NextStmt == [pc EXCEPT !.i = pc.i + 1, !.step = "begin"]

Init ==
    /\ script \in {"solver", "determinant"}
    /\ pc = [g |-> "main", i |-> 0,
             step |-> IF script = "solver" THEN "header" ELSE "calls"]
    /\ ran = <<>>
    /\ rng \in 0..MaxEntropy
    /\ cur = NoCur
    /\ out = <<>>
    /\ fixtures = <<>>
    /\ calls = <<>>
    /\ rendered = <<>>

\* generate_test_solver.py __main__, lines 321-325
PrintHeader ==
    /\ script = "solver"
    /\ AtMain("header")
    /\ out' = out \o << Tok("slashes", 80),
                        Tok("head", "// Generated Test Cases for hd_solver.hpp"),
                        Tok("head", "// Generated by generate_test_solver.py"),
                        Tok("head", "// Reference implementation: NumPy (numpy.linalg.solve)"),
                        Tok("slashes", 80) >>
    /\ pc' = [pc EXCEPT !.step = "calls"]
    /\ UNCHANGED <<script, ran, rng, cur, fixtures, calls, rendered>>

Enter(g) ==
    /\ pc' = [g |-> g, i |-> 1, step |-> "begin"]
    /\ ran' = Append(ran, g)
    /\ UNCHANGED <<script, rng, cur, out, fixtures, calls, rendered>>

\* __main__ calls the next generator routine of its list
CallInOrder ==
    /\ AtMain("calls")
    /\ Len(ran) < Len(MainOrder(script))
    /\ Enter(MainOrder(script)[Len(ran) + 1])

\* the generator routines called in any order
CallAny ==
    /\ AtMain("calls")
    /\ \E g \in Range(MainOrder(script)) \ Range(ran) : Enter(g)

PrintBanner ==
    /\ AtStmt("banner", "begin")
    /\ out' = out \o Banner(Stmt.title)
    /\ pc' = NextStmt
    /\ UNCHANGED <<script, ran, rng, cur, fixtures, calls, rendered>>

PrintRule ==
    /\ AtStmt("rule", "begin")
    /\ out' = Append(out, Tok("rule", 80))
    /\ pc' = NextStmt
    /\ UNCHANGED <<script, ran, rng, cur, fixtures, calls, rendered>>

\* the statements of a fixture up to the reference call: seed, draw, build A and b
Build ==
    /\ AtStmt("fixture", "begin")
    /\ \E r \in {BuildFixture(Stmt, rng)} :
           /\ cur' = [NoCur EXCEPT !.name = Stmt.name, !.A = r.A, !.b = r.b,
                                   !.x_true = r.x_true, !.rng0 = rng]
           /\ rng' = r.rng
    /\ pc' = [pc EXCEPT !.step = "oracle"]
    /\ UNCHANGED <<script, ran, out, fixtures, calls, rendered>>

Call(fn) == [fn |-> fn, gen |-> pc.g, name |-> Stmt.name, build |-> Stmt.build]

\* x = np.linalg.solve(A, b)
Solve ==
    /\ script = "solver"
    /\ AtStmt("fixture", "oracle")
    /\ cur' = [cur EXCEPT !.x = linalg_solve(cur.A, cur.b)]
    /\ calls' = Append(calls, Call("solve"))
    /\ pc' = [pc EXCEPT !.step = "info"]
    /\ UNCHANGED <<script, ran, rng, out, fixtures, rendered>>

\* det_A = np.linalg.det(A)
Det ==
    /\ script = "determinant"
    /\ AtStmt("fixture", "oracle")
    /\ cur' = [cur EXCEPT !.det = linalg_det(cur.A)]
    /\ calls' = Append(calls, Call("det"))
    /\ pc' = [pc EXCEPT !.step = "emit"]
    /\ UNCHANGED <<script, ran, rng, out, fixtures, rendered>>

PrintInfo ==
    /\ AtStmt("fixture", "info")
    /\ out' = out \o print_matrix_info(cur.A, Stmt.info)
    /\ calls' = calls \o <<Call("det"), Call("cond"), Call("eigvals")>>
    /\ pc' = [pc EXCEPT !.step = "emit"]
    /\ UNCHANGED <<script, ran, rng, cur, fixtures, rendered>>

\* the solve result passed for every fixture
ExpectedArg_m(f, c) == c.x

\* the third argument of the print_solver_test_case call
ExpectedArg(f, c) == IF f.build = "known" THEN c.x_true ELSE c.x

\* the epsilon argument left out of every call
EpsilonArg_m(f) == DefaultEpsilon

\* the epsilon argument of the print_solver_test_case call
EpsilonArg(f) == IF f.epsilon = "default" THEN DefaultEpsilon ELSE f.epsilon

TestCase(f, g, c, expected, epsilon) ==
    [name |-> f.name, gen |-> g, A |-> c.A, b |-> c.b,
     expected |-> expected, epsilon |-> epsilon]

PrintCase ==
    /\ script = "solver"
    /\ AtStmt("fixture", "emit")
    /\ out' = out \o print_solver_test_case(cur.A, cur.b, ExpectedArg(Stmt, cur),
                                            Stmt.name, EpsilonArg(Stmt))
    /\ fixtures' = Append(fixtures,
                          TestCase(Stmt, pc.g, cur, ExpectedArg(Stmt, cur), EpsilonArg(Stmt)))
    /\ pc' = NextStmt
    /\ UNCHANGED <<script, ran, rng, cur, calls, rendered>>

PrintDet ==
    /\ script = "determinant"
    /\ AtStmt("fixture", "emit")
    /\ out' = out \o print_matrix(cur.A, Stmt.name, cur.det)
    /\ fixtures' = Append(fixtures, TestCase(Stmt, pc.g, cur, cur.det, "1e-6"))
    /\ pc' = NextStmt
    /\ UNCHANGED <<script, ran, rng, cur, calls, rendered>>

Return ==
    /\ pc.g \notin {"main", "emit", "dd"}
    /\ pc.i > Len(Body(pc.g))
    /\ pc' = [g |-> "main", i |-> 0, step |-> "calls"]
    /\ UNCHANGED <<script, ran, rng, cur, out, fixtures, calls, rendered>>

\* print_usage_instructions() / the closing note of the determinant script
Closing ==
    IF script = "solver"
    THEN Banner("Usage Instructions") \o <<Tok("usage", "To use these test cases: ...")>>
    ELSE Banner("Note: Copy relevant matrices to hd_determinant_test.cpp")

PrintTail ==
    /\ AtMain("calls")
    /\ Len(ran) = Len(MainOrder(script))
    /\ out' = out \o Closing
    /\ pc' = [pc EXCEPT !.step = "done"]
    /\ UNCHANGED <<script, ran, rng, cur, fixtures, calls, rendered>>

Done == AtMain("done")

Steps ==
    \/ PrintHeader
    \/ PrintBanner
    \/ PrintRule
    \/ Build
    \/ Solve
    \/ Det
    \/ PrintInfo
    \/ PrintCase
    \/ PrintDet
    \/ Return
    \/ PrintTail

Next == CallInOrder \/ Steps

Spec == Init /\ [][Next]_vars

\* the scripts run to completion: nothing blocks a step that is enabled
FairSpec == Spec /\ WF_vars(Next)

\* the generator routines of a script called in any order, and any number of them
NextAnyOrder == CallAny \/ Steps

SpecAnyOrder == Init /\ [][NextAnyOrder]_vars

(***************************************************************************)
(* The emitters on their own: each is applied once, in any order, to the   *)
(* same test case, drawn from a bounded set of matrices with integer and   *)
(* fractional entries.                                                     *)
(***************************************************************************)
EmitSizes == {2, 3}

EmitValues == {Dec(EmitMaxVal, 0), Dec(-250919762, -9)}

EmitDets == {Dec(-2 * EmitMaxVal, 0), Dec(314159265, -12)}

NotRendered == [solver |-> <<>>, nested |-> <<>>, flat |-> <<>>]

InitEmit ==
    /\ script = "emit"
    /\ pc = [g |-> "emit", i |-> 0, step |-> "input"]
    /\ ran = <<>>
    /\ rng = 0
    /\ \E n \in EmitSizes :
         \E A \in [1..n -> [1..n -> EmitValues]] :
           \E d \in EmitDets :
             \E eps \in {DefaultEpsilon, "1e-8"} :
               cur = [name |-> "case", A |-> A,
                      b |-> [i \in 1..n |-> Dec(i, 0)],
                      x |-> [i \in 1..n |-> Dec(11 * i, -1)],
                      x_true |-> <<>>, det |-> d, rng0 |-> 0, epsilon |-> eps]
    /\ out = <<>>
    /\ fixtures = <<>>
    /\ calls = <<>>
    /\ rendered = NotRendered

EmitSolver ==
    /\ pc.g = "emit"
    /\ rendered.solver = <<>>
    /\ rendered' = [rendered EXCEPT !.solver =
           print_solver_test_case(cur.A, cur.b, cur.x, cur.name, cur.epsilon)]
    /\ UNCHANGED <<script, pc, ran, rng, cur, out, fixtures, calls>>

EmitNested ==
    /\ pc.g = "emit"
    /\ rendered.nested = <<>>
    /\ rendered' = [rendered EXCEPT !.nested = print_matrix(cur.A, cur.name, cur.det)]
    /\ UNCHANGED <<script, pc, ran, rng, cur, out, fixtures, calls>>

EmitFlat ==
    /\ pc.g = "emit"
    /\ rendered.flat = <<>>
    /\ rendered' = [rendered EXCEPT !.flat = print_mdspan_matrix(cur.A, cur.name, cur.det)]
    /\ UNCHANGED <<script, pc, ran, rng, cur, out, fixtures, calls>>

NextEmit == EmitSolver \/ EmitNested \/ EmitFlat

SpecEmit == InitEmit /\ [][NextEmit]_vars

(***************************************************************************)
(* The diagonal-dominance loop on its own, one iteration per step, for     *)
(* every 3 x 3 base matrix over a bounded set of entries and both margins  *)
(* the scripts use.                                                        *)
(***************************************************************************)
DDValues == {Dec(-DDMaxVal, 0), Dec(0, 0), Dec(DDMaxVal, 0)}

DDMargins == {Dec(1, 0), Dec(5, 0)}

DDSize == 3

InitDD ==
    /\ script = "dd"
    /\ pc = [g |-> "dd", i |-> 1, step |-> "loop"]
    /\ ran = <<>>
    /\ rng = 0
    /\ \E A_temp \in [1..DDSize -> [1..DDSize -> DDValues]] :
         \E margin \in DDMargins :
           cur = [A_temp |-> A_temp, A |-> A_temp, n |-> DDSize, margin |-> margin]
    /\ out = <<>>
    /\ fixtures = <<>>
    /\ calls = <<>>
    /\ rendered = <<>>

\* one iteration of: for i in range(n): A[i, i] = np.sum(np.abs(A_temp[i, :])) + margin
DDIterate ==
    /\ pc.g = "dd"
    /\ pc.i <= cur.n
    /\ cur' = [cur EXCEPT !.A = DDRow(cur.A, cur.A_temp, pc.i, cur.margin)]
    /\ pc' = [pc EXCEPT !.i = pc.i + 1]
    /\ UNCHANGED <<script, ran, rng, out, fixtures, calls, rendered>>

NextDD == DDIterate

SpecDD == InitDD /\ [][NextDD]_vars

(***************************************************************************)
(* Properties                                                              *)
(***************************************************************************)
\* the statement of routine g that builds fixture `name`
FixtureOf(g, name) ==
    Body(g)[CHOOSE i \in DOMAIN Body(g) :
                Body(g)[i].op = "fixture" /\ Body(g)[i].name = name]

\* the fixture statements of a script, in the order __main__ reaches them
AllFixtures(s) ==
    SelectSeq(Flatten([k \in 1..Len(MainOrder(s)) |-> Body(MainOrder(s)[k])]),
              LAMBDA st : st.op = "fixture")

\* the generator state in which the k-th fixture of the list is built, when the
\* process starts in state e
RECURSIVE StateBefore(_, _, _)
StateBefore(stmts, e, k) ==
    IF k = 1 THEN e
    ELSE Let(StateBefore(stmts, e, k - 1), LAMBDA state :
             BuildFixture(stmts[k - 1], state).rng)

\* what each fixture is when the routines run in the order of __main__, for each
\* script and each generator state e at process start
DefaultRun ==
    UNION {{Let(StateBefore(AllFixtures(s), e, k), LAMBDA state :
            Let(BuildFixture(AllFixtures(s)[k], state), LAMBDA r :
                [script |-> s, start |-> e, name |-> AllFixtures(s)[k].name,
                 A |-> r.A, b |-> r.b])) :
                k \in 1..Len(AllFixtures(s)), e \in 0..MaxEntropy} :
           s \in {"solver", "determinant"}}

\* C1: whatever the order in which generator routines are called, and however
\* many of them are, every fixture printed has the matrix and the right-hand side
\* it has when the routines run in the default order (from any generator state at
\* process start).
C1_OrderIndependent ==
    \A k \in DOMAIN fixtures :
        \A e \in 0..MaxEntropy :
            [script |-> script, start |-> e, name |-> fixtures[k].name,
             A |-> fixtures[k].A, b |-> fixtures[k].b] \in DefaultRun

Reverse(q) == [i \in 1..Len(q) |-> q[Len(q) + 1 - i]]

\* the solver's routines were all called, in the reverse of the default order
C1_Witness ==
    /\ script = "solver"
    /\ ran = Reverse(MainOrder("solver"))
    /\ Done
    /\ Len(fixtures) = 16

\* the draws a randomized fixture makes
Draws(f) == IF f.build = "basic_random" THEN f.n * f.n + f.n ELSE f.n * f.n

JustBuilt == pc.g \notin {"main", "emit", "dd"} /\ pc.step = "oracle"

IsSolve(c) == c.fn = "solve"

Guaranteed == {"basic_random", "known", "spd", "stiff"}

\* C3 as claimed: solve is called only on matrices from a construction that
\* guarantees nonsingularity, never on a literal or near-singular matrix, and
\* never on a matrix of generate_singular_matrices.
C3_OnlyGuaranteed ==
    \A k \in DOMAIN calls :
        IsSolve(calls[k]) =>
            /\ calls[k].build \in Guaranteed
            /\ calls[k].gen # "generate_singular_matrices"

StrictlyDominant(A) ==
    \A i \in DOMAIN A :
        NumLess(NumSum([j \in DOMAIN A[i] |->
                            IF j = i THEN Dec(0, 0) ELSE NumAbs(A[i][j])]),
                NumAbs(A[i][i]))

Symmetric(A) == \A i \in DOMAIN A : \A j \in DOMAIN A : A[i][j] = A[j][i]

\* A = M + c * I with c > 0 where M has a nonnegative diagonal
ShiftedDiagonal(A, c) ==
    /\ NumLess(Dec(0, 0), c)
    /\ \A i \in DOMAIN A : ~NumLess(A[i][i], c)

PositiveFloor(eigenvalues) ==
    \A i \in DOMAIN eigenvalues : NumLess(Dec(0, 0), eigenvalues[i])

\* the matrix just passed to solve was built the way its family guarantees
BuiltAsGuaranteed ==
    CASE Stmt.build \in {"basic_random", "known"} -> StrictlyDominant(cur.A)
      [] Stmt.build = "spd" -> Symmetric(cur.A) /\ ShiftedDiagonal(cur.A, Stmt.param)
      [] Stmt.build = "stiff" ->
             /\ PositiveFloor(Stmt.eig)
             /\ \A i \in 1..Stmt.n : \A j \in 1..Stmt.n : cur.A[i][j][3] = Stmt.eig
      [] OTHER -> FALSE

\* C3 as amended: solve is called on every solver fixture's matrix; a matrix that
\* is drawn at random reaches it only as built by a guaranteeing construction
\* (strictly diagonally dominant, B^T B plus a positive multiple of the identity,
\* or positive eigenvalues), the others are literals (the nearly singular and the
\* mixed-scale ones among them); no matrix of the determinant script, so none of
\* generate_singular_matrices, reaches solve.
C3_SolveCalls ==
    /\ \A k \in DOMAIN calls :
           IsSolve(calls[k]) =>
               /\ calls[k].gen \in Range(MainOrder("solver"))
               /\ calls[k].build \in Guaranteed \cup {"literal"}
    /\ (pc.g \notin {"main", "emit", "dd"} /\ pc.step = "info" /\ Randomized(Stmt))
           => BuiltAsGuaranteed
    /\ \A k \in DOMAIN fixtures :
           fixtures[k].gen \in Range(MainOrder("solver")) =>
               \E c \in DOMAIN calls :
                   IsSolve(calls[c]) /\ calls[c].name = fixtures[k].name

\* solve has been called on the nearly singular literal and on every randomized
\* solver fixture
C3_Witness ==
    /\ \E k \in DOMAIN calls :
           IsSolve(calls[k]) /\ calls[k].name = "Nearly singular 3x3"
    /\ \A b \in Guaranteed : \E k \in DOMAIN calls :
           IsSolve(calls[k]) /\ calls[k].build = b

\* the position in out of the first token of type t at or after p (0 if none)
First(t, p) ==
    IF \E k \in p..Len(out) : out[k].t = t
    THEN CHOOSE k \in p..Len(out) : out[k].t = t /\ \A j \in p..(k - 1) : out[j].t # t
    ELSE 0

\* the positions in out where the block of fixture `name` starts
BlockStart(name) == {p \in DOMAIN out : out[p].t = "subcase" /\ out[p].v = name}

Literals(v) == [i \in DOMAIN v |-> FormatE(v[i], 16)]

Values(lits) == [i \in DOMAIN lits |-> lits[i].val]

IsKnown(tc) == tc.gen = "generate_known_solution_tests"

cond_decade(name) ==
    CASE name = "Simple 2x2 system" -> 0
      [] name = "Upper triangular 3x3 system" -> 1
      [] name = "General 4x4 system" -> 2
      [] name = "Random 5x5 diagonally dominant system" -> 0
      [] name = "Identity 3x3" -> 0
      [] name = "Diagonal 4x4" -> 0
      [] name = "Symmetric positive definite 3x3" -> 0
      [] name = "Symmetric positive definite 4x4" -> 1
      [] name = "Known solution [1, 2, 3]" -> 0
      [] name = "Known solution [1, 2, 3, 4, 5]" -> 0
      [] name = "Stiff 3x3 system (condition ~ 1e5)" -> 5
      [] name = "Stiff 4x4 system (condition ~ 1e6)" -> 6
      [] name = "Extremely stiff 5x5 system (condition ~ 1e7)" -> 7
      [] name = "Diagonal stiff 3x3 (eigenvalue ratio = 1e7)" -> 7
      [] name = "Nearly singular 3x3" -> 10
      [] name = "Mixed scales 3x3" -> 6

\* the default epsilons of the condition-number table
TableDefaults(decade) ==
    IF decade < 3 THEN {"1e-12"}
    ELSE IF decade < 6 THEN {"1e-10", "1e-9", "1e-8"}
    ELSE IF decade <= 7 THEN {"1e-6", "1e-5"}
    ELSE {}

Owner(name) ==
    CHOOSE g \in Range(MainOrder("solver")) :
        \E i \in DOMAIN Body(g) : Body(g)[i].op = "fixture" /\ Body(g)[i].name = name

\* the last position before p of a token of type t (0 if none)
Last(t, p) ==
    IF \E k \in 1..(p - 1) : out[k].t = t
    THEN CHOOSE k \in 1..(p - 1) : out[k].t = t /\ \A j \in (k + 1)..(p - 1) : out[j].t # t
    ELSE 0

InfoTypes ==
    <<"info_name", "info_size", "info_det", "info_cond", "info_eig", "info_ratio">>

\* the block starting at p: after its section's banner, right after its own
\* diagnostic header, literals before lu_decomp before lu_backsubs before CHECK
BlockOrdered(p) ==
    LET name == out[p].v
        f == FixtureOf(Owner(name), name)
        close == First("close", p)
        m == First("m_s", p)
        rhs == First("rhs_s", p)
        x == First("x_expected", p)
        decomp == First("lu_decomp", p)
        backsubs == First("lu_backsubs", p)
        check == First("check", p)
    IN  /\ Last("title", p) # 0
        /\ out[Last("title", p)].v = Body(Owner(name))[1].title
        /\ p > 6
        /\ \A d \in 1..6 : out[p - 7 + d].t = InfoTypes[d]
        /\ out[p - 6].v = f.info
        /\ out[p - 5].v = <<f.n, f.n>>
        /\ p < m /\ m < rhs /\ rhs < x /\ x < decomp
        /\ decomp < backsubs /\ backsubs < check /\ check < close

StreamOrdered ==
    \A p \in DOMAIN out : out[p].t = "subcase" => BlockOrdered(p)

SolverNames ==
    UNION {{Body(g)[i].name : i \in {j \in DOMAIN Body(g) : Body(g)[j].op = "fixture"}} :
           g \in Range(MainOrder("solver"))}

StreamComplete ==
    /\ \A g \in Range(MainOrder(script)) :
           \E p \in DOMAIN out : out[p].t = "title" /\ out[p].v = Body(g)[1].title
    /\ script = "solver" =>
           /\ \A name \in SolverNames : Cardinality(BlockStart(name)) = 1
           /\ out[Len(out)].t = "usage"

\* C10: the run terminates, having printed every section; every fixture block
\* comes after its own section's banner and before the next, right after its own
\* diagnostic header; in a block the literals precede hd::lu_decomp, which
\* precedes hd::lu_backsubs, which precedes the CHECK.
C10_OrderedAndComplete ==
    /\ []StreamOrdered
    /\ [](Done => StreamComplete)
    /\ <>Done

\* the solver script has finished
C10_Witness ==
    script = "solver" /\ Done /\ Len(fixtures) = 16 /\ StreamOrdered /\ StreamComplete

\* the numeric literals of emitted fixture code
CodeLiterals(toks) ==
    UNION {IF toks[k].t \in {"m_s", "rhs_s", "x_expected"} THEN Range(toks[k].v)
           ELSE IF toks[k].t = "row" THEN Range(toks[k].v.lits)
           ELSE IF toks[k].t = "elem" THEN {toks[k].v.lit}
           ELSE IF toks[k].t = "check_det" THEN {toks[k].v.approx}
           ELSE {} : k \in DOMAIN toks}

\* C5: every numeric literal written by print_solver_test_case, print_matrix and
\* print_mdspan_matrix (matrix, right-hand side, expected solution, expected
\* determinant) has at least 16 significant decimal digits.
C5_SixteenDigits ==
    \A e \in {"solver", "nested", "flat"} :
        \A l \in CodeLiterals(rendered[e]) : SigDigits(l) >= 16

Select(toks, t) == SelectSeq(toks, LAMBDA x : x.t = t)

\* C7: for a matrix of dimension n, print_solver_test_case writes n*n matrix
\* literals in row-major order (position i*n+j holds A[i, j]), n right-hand-side
\* literals and n expected-solution literals, and the permutation array, the
\* mdspan extents and the CHECK loop bound all use that n.
C7_ShapeInvariant ==
    rendered.solver # <<>> =>
        LET toks == rendered.solver
            n == Len(cur.A)
            The(t) == Select(toks, t)[1].v
        IN  /\ \A t \in {"m_s", "rhs_s", "x_expected", "m_perm_s", "mdspan_m",
                         "mdspan_rhs", "mdspan_m_perm", "for"} : Len(Select(toks, t)) = 1
            /\ Len(The("m_s")) = n * n
            /\ \A i \in 0..(n - 1) : \A j \in 0..(n - 1) :
                   The("m_s")[i * n + j + 1] = FormatE(cur.A[i + 1][j + 1], 16)
            /\ Len(The("rhs_s")) = n
            /\ \A i \in 1..n : The("rhs_s")[i] = FormatE(cur.b[i], 16)
            /\ Len(The("x_expected")) = n
            /\ \A i \in 1..n : The("x_expected")[i] = FormatE(cur.x[i], 16)
            /\ The("m_perm_s") = n
            /\ The("mdspan_m") = <<n, n>>
            /\ The("mdspan_rhs") = n
            /\ The("mdspan_m_perm") = n
            /\ The("for") = n

\* the matrix is not symmetric
Asymmetric(A) == \E i \in DOMAIN A : \E j \in DOMAIN A : A[i][j] # A[j][i]

\* a solver block has been printed for an asymmetric 3 x 3 matrix
C7_Witness ==
    /\ script = "emit"
    /\ rendered.solver # <<>>
    /\ Len(cur.A) = 3
    /\ Asymmetric(cur.A)

\* the element literals of the nested form, row by row, each with whether a
\* separator follows it: the ", " of the join, or the comma after its row
NestedElements(toks) ==
    Flatten([r \in 1..Len(Select(toks, "row")) |->
        LET row == Select(toks, "row")[r].v
        IN  [j \in 1..Len(row.lits) |->
                [lit |-> row.lits[j], comma |-> j < Len(row.lits) \/ row.comma]]])

FlatElements(toks) == [k \in 1..Len(Select(toks, "elem")) |-> Select(toks, "elem")[k].v]

\* C8: for the same matrix, name and determinant, print_mdspan_matrix and
\* print_matrix write the same two header lines, the same n*n element literals in
\* the same row-major order with a separator after every element but the last,
\* and a CHECK with the same expected determinant and the same epsilon.
C8_LayoutsAgree ==
    (rendered.nested # <<>> /\ rendered.flat # <<>>) =>
        LET nested == rendered.nested
            flat == rendered.flat
            n == Len(cur.A)
        IN  /\ SubSeq(flat, 1, 2) = SubSeq(nested, 1, 2)
            /\ Len(FlatElements(flat)) = n * n
            /\ FlatElements(flat) = NestedElements(nested)
            /\ \A i \in 0..(n - 1) : \A j \in 0..(n - 1) :
                   /\ FlatElements(flat)[i * n + j + 1].lit = FormatF(cur.A[i + 1][j + 1], 6)
                   /\ FlatElements(flat)[i * n + j + 1].comma = (i * n + j + 1 < n * n)
            /\ Select(flat, "check_det")[1].v.approx = Select(nested, "check_det")[1].v.approx
            /\ Select(flat, "check_det")[1].v.epsilon = Select(nested, "check_det")[1].v.epsilon

\* both layouts have been printed for an asymmetric 3 x 3 matrix
C8_Witness ==
    /\ script = "emit"
    /\ rendered.nested # <<>>
    /\ rendered.flat # <<>>
    /\ Len(cur.A) = 3
    /\ Asymmetric(cur.A)

\* row i of A is strictly dominant and differs from the base row only on the
\* diagonal
RowDominant(A, A_temp, i) ==
    /\ NumLess(NumSum([j \in DOMAIN A[i] |->
                          IF j = i THEN Dec(0, 0) ELSE NumAbs(A[i][j])]),
               NumAbs(A[i][i]))
    /\ \A j \in DOMAIN A[i] : j # i => A[i][j] = A_temp[i][j]

\* C9: for every base matrix and positive margin, each row the loop has passed is
\* strictly diagonally dominant with its off-diagonal entries those of the base
\* matrix, so after the loop the whole matrix is; the rows not yet reached are
\* the base matrix's.
C9_StrictlyDominant ==
    script = "dd" =>
        /\ NumLess(Dec(0, 0), cur.margin)
        /\ \A i \in 1..(pc.i - 1) : RowDominant(cur.A, cur.A_temp, i)
        /\ \A i \in pc.i..cur.n : cur.A[i] = cur.A_temp[i]

\* the loop has finished on a base matrix with a row of negative entries and a
\* row of zeros
C9_Witness ==
    /\ script = "dd"
    /\ pc.i > cur.n
    /\ \E i \in 1..cur.n : \A j \in 1..cur.n : NumLess(cur.A_temp[i][j], Dec(0, 0))
    /\ \E i \in 1..cur.n : \A j \in 1..cur.n : cur.A_temp[i][j] = Dec(0, 0)
    /\ StrictlyDominant(cur.A)

====
